---- MODULE Spec2Model ----
(***************************************************************************)
(* kacl-parser: the "Keep a Changelog" heading grammar (date.rs,           *)
(* version.rs) and the Changelog segmenter (lib.rs).                       *)
(*                                                                         *)
(* Text is modelled as the code sees it: a sequence of bytes (0..255).     *)
(* A &str is a byte sequence that is valid UTF-8; a &[u8] is any byte      *)
(* sequence.  A parser result is a record                                  *)
(*   [tag |-> "Ok",  rest |-> remaining input, val |-> value]              *)
(*   [tag |-> "Err", err |-> "Error" | "Incomplete", kind |-> ErrorKind,   *)
(*                   rest |-> the error's input position]                  *)
(*   [tag |-> "Panic"]      (an unwrap() on Err: the thread unwinds)       *)
(***************************************************************************)
EXTENDS Integers, Sequences, FiniteSets, TLC

VARIABLES
    \* ---- segmenter run (Spec) ----
    blocks,     \* the document: the block sequence handed to Changelog::new
    cursor,     \* number of blocks pulled so far from the iterator `blocks`
    srcDone,    \* the iterator has returned None
    slot,       \* self.0: None, or Some(pending Version); its iterator is cursor
    emitted,    \* the Some(..) items next() has returned so far, in order
    ret,        \* what the last call returned
    pc,         \* "start" (before new) | "ready" (between calls) | "aborted"
    idle,       \* number of next() calls that returned None
    classified, \* every Version::try_from call so far: the block and the outcome
    \* ---- grammar runs (SpecGrammar) ----
    mode,       \* "seg" | "heading" | "date"
    inp,        \* the parts the heading text was built from
    text,       \* the text given to the grammar
    result,     \* what the grammar returned
    steps,      \* the values the digit accumulation went through, in order
    shown,      \* the parsed Date, formatted by Display
    gpc         \* "start" | "done" | "shown"

vars == <<blocks, cursor, srcDone, slot, emitted, ret, pc, idle, classified,
          mode, inp, text, result, steps, shown, gpc>>

segVars == <<blocks, cursor, srcDone, slot, emitted, ret, pc, idle, classified>>
gramVars == <<inp, text, result, steps, shown, gpc>>

(***************************************************************************)
(* Bytes and text                                                          *)
(***************************************************************************)
\* The byte of each ASCII character the texts below are written with.
Chr ==
    ("\t" :> 9) @@ (" " :> 32) @@ ("\"" :> 34) @@ ("&" :> 38) @@ ("+" :> 43)
    @@ ("-" :> 45) @@ ("." :> 46) @@ ("/" :> 47) @@ (":" :> 58)
    @@ (";" :> 59) @@ ("<" :> 60) @@ (">" :> 62) @@ ("[" :> 91)
    @@ ("]" :> 93) @@ ("0" :> 48) @@ ("1" :> 49) @@ ("2" :> 50)
    @@ ("3" :> 51) @@ ("4" :> 52) @@ ("5" :> 53) @@ ("6" :> 54)
    @@ ("7" :> 55) @@ ("8" :> 56) @@ ("9" :> 57) @@ ("A" :> 65)
    @@ ("B" :> 66) @@ ("C" :> 67) @@ ("D" :> 68) @@ ("E" :> 69)
    @@ ("F" :> 70) @@ ("G" :> 71) @@ ("H" :> 72) @@ ("I" :> 73)
    @@ ("J" :> 74) @@ ("K" :> 75) @@ ("L" :> 76) @@ ("M" :> 77)
    @@ ("N" :> 78) @@ ("O" :> 79) @@ ("P" :> 80) @@ ("Q" :> 81)
    @@ ("R" :> 82) @@ ("S" :> 83) @@ ("T" :> 84) @@ ("U" :> 85)
    @@ ("V" :> 86) @@ ("W" :> 87) @@ ("X" :> 88) @@ ("Y" :> 89)
    @@ ("Z" :> 90) @@ ("a" :> 97) @@ ("b" :> 98) @@ ("c" :> 99)
    @@ ("d" :> 100) @@ ("e" :> 101) @@ ("f" :> 102) @@ ("g" :> 103)
    @@ ("h" :> 104) @@ ("i" :> 105) @@ ("j" :> 106) @@ ("k" :> 107)
    @@ ("l" :> 108) @@ ("m" :> 109) @@ ("n" :> 110) @@ ("o" :> 111)
    @@ ("p" :> 112) @@ ("q" :> 113) @@ ("r" :> 114) @@ ("s" :> 115)
    @@ ("t" :> 116) @@ ("u" :> 117) @@ ("v" :> 118) @@ ("w" :> 119)
    @@ ("x" :> 120) @@ ("y" :> 121) @@ ("z" :> 122)
    \* the two bytes of U+00E9 (e acute) in UTF-8
    @@ ("E9-lead" :> 195) @@ ("E9-cont" :> 169)

\* The bytes of a text written as a tuple of characters.
B(cs) == [k \in 1..Len(cs) |-> Chr[cs[k]]]

Drop(s, n) == SubSeq(s, n + 1, Len(s))
Take(s, n) == SubSeq(s, 1, n)

IsDigit(b) == b \in 48..57
IsAlpha(b) == b \in 65..90 \/ b \in 97..122

\* nom's lowercase_byte, used by tag_no_case on &[u8]
lowercase_byte(b) == IF b \in 65..90 THEN b + 32 ELSE b

IsCont(b) == b \in 128..191

\* Length of the well-formed UTF-8 sequence at the head of s, 0 if there is none
\* (std::str::from_utf8's validation).
Utf8Width(s) ==
    LET b == s[1]
        c(k) == Len(s) >= k /\ IsCont(s[k])
    IN  IF b < 128 THEN 1
        ELSE IF b \in 194..223 /\ c(2) THEN 2
        ELSE IF b = 224 /\ Len(s) >= 2 /\ s[2] \in 160..191 /\ c(3) THEN 3
        ELSE IF b \in 225..236 /\ c(2) /\ c(3) THEN 3
        ELSE IF b = 237 /\ Len(s) >= 2 /\ s[2] \in 128..159 /\ c(3) THEN 3
        ELSE IF b \in 238..239 /\ c(2) /\ c(3) THEN 3
        ELSE IF b = 240 /\ Len(s) >= 2 /\ s[2] \in 144..191 /\ c(3) /\ c(4) THEN 4
        ELSE IF b \in 241..243 /\ c(2) /\ c(3) /\ c(4) THEN 4
        ELSE IF b = 244 /\ Len(s) >= 2 /\ s[2] \in 128..143 /\ c(3) /\ c(4) THEN 4
        ELSE 0

RECURSIVE from_utf8_ok(_)
from_utf8_ok(s) ==
    IF s = <<>> THEN TRUE
    ELSE LET w == Utf8Width(s)
         IN  w > 0 /\ from_utf8_ok(Drop(s, w))

(***************************************************************************)
(* nom results and primitive parsers                                       *)
(***************************************************************************)
NoVal == "-"

Ok(rest, val) ==
    [tag |-> "Ok", err |-> "-", kind |-> "-", rest |-> rest, val |-> val]
Err(kind, input) ==
    [tag |-> "Err", err |-> "Error", kind |-> kind, rest |-> input, val |-> NoVal]
Incomplete ==
    [tag |-> "Err", err |-> "Incomplete", kind |-> "-", rest |-> <<>>, val |-> NoVal]
Panic ==
    [tag |-> "Panic", err |-> "-", kind |-> "-", rest |-> <<>>, val |-> NoVal]

\* `r?` followed by the rest of the function, K, on r's Ok value; and a plain
\* `let x = e;` followed by K.
Try(r, K(_)) == IF r.tag = "Ok" THEN K(r) ELSE r
With(e, K(_)) == K(e)

\* nom::bytes::complete::take(n) on &[u8]
take(n, i) ==
    IF Len(i) < n THEN Err("Eof", i) ELSE Ok(Drop(i, n), Take(i, n))

\* nom::bytes::complete::tag(t) on &[u8]
tag(t, i) ==
    IF Len(i) >= Len(t) /\ Take(i, Len(t)) = t
    THEN Ok(Drop(i, Len(t)), t)
    ELSE Err("Tag", i)

\* nom::character::complete::char(c), c an ASCII character
char(c, i) ==
    IF i # <<>> /\ i[1] = c THEN Ok(Drop(i, 1), c) ELSE Err("Char", i)

\* nom::character::complete::space0: zero or more spaces and tabs, never fails
RECURSIVE SpaceRun(_)
SpaceRun(i) ==
    IF i # <<>> /\ i[1] \in {32, 9} THEN 1 + SpaceRun(Drop(i, 1)) ELSE 0

space0(i) == Ok(Drop(i, SpaceRun(i)), Take(i, SpaceRun(i)))

\* tag_no_case!(t) on &[u8]: the macro expands to the streaming parser, which
\* answers Incomplete when the input ends inside a so-far matching prefix.
tag_no_case(t, i) ==
    LET m == IF Len(i) < Len(t) THEN Len(i) ELSE Len(t)
        same == \A k \in 1..m : lowercase_byte(i[k]) = lowercase_byte(t[k])
    IN  IF ~same THEN Err("Tag", i)
        ELSE IF Len(i) < Len(t) THEN Incomplete
        ELSE Ok(Drop(i, Len(t)), Take(i, Len(t)))

(***************************************************************************)
(* Date grammar (date.rs)                                                  *)
(***************************************************************************)
\* The integer types of Date's fields: year is u16, month and day are u8.
U8Bits == 8
U16Bits == 16

Wrap(x, bits) == x % (2 ^ bits)

\* Accumulate, but with the subtraction done first: acc * 10 - b'0' + digit.
AccumulateSubFirst(acc, digit, w) ==
    With(acc * 10, LAMBDA t1 :
    With(Wrap(t1, w) - 48, LAMBDA t2 :
    <<t1, t2, Wrap(t2, w) + digit>>))

\* acc * 10u8.into() + digit.into() - b'0'.into() in the integer type I (w
\* bits), as Rust orders it: the product, then the sum, then the difference.
\* The three values are the exact results of the three operations, each on
\* operands of the type; a value outside 0 .. 2^w - 1 is an overflow.
Accumulate(acc, digit, w) ==
    With(acc * 10, LAMBDA t1 :
    With(Wrap(t1, w) + digit, LAMBDA t2 :
    <<t1, t2, Wrap(t2, w) - 48>>))

\* try_fold over the group's bytes: Accumulate on each digit, or Err(Digit)
\* carrying `src` at the first non-digit.
RECURSIVE DecFold(_, _, _, _)
DecFold(src, bts, acc, w) ==
    IF bts = <<>> THEN Ok(src, acc)
    ELSE IF IsDigit(bts[1])
         THEN DecFold(src, Drop(bts, 1), Wrap(Accumulate(acc, bts[1], w)[3], w), w)
         ELSE Err("Digit", src)

\* The values the same try_fold goes through: three for each digit it takes.
Step(bits, value) == [bits |-> bits, value |-> value]

RECURSIVE FoldSteps(_, _, _)
FoldSteps(bts, acc, w) ==
    IF bts = <<>> \/ ~IsDigit(bts[1]) THEN <<>>
    ELSE With(Accumulate(acc, bts[1], w), LAMBDA t :
         <<Step(w, t[1]), Step(w, t[2]), Step(w, t[3])>>
         \o FoldSteps(Drop(bts, 1), Wrap(t[3], w), w))

decimal_from_bytes(src, bts, w) == DecFold(src, bts, 0, w)

\* let (i, digits) = take(n)(i)?;  Ok((i, decimal_from_bytes(i, digits)?))
\* The `i` handed to decimal_from_bytes is the shadowing one: the input left
\* after the group.
decimal_n(n, i, w) ==
    Try(take(n, i), LAMBDA t :
    Try(decimal_from_bytes(t.rest, t.val, w), LAMBDA d :
    Ok(t.rest, d.val)))

\* The accumulation steps of decimal_n(n, i): none when take(n) fails.
GroupSteps(n, i, w) == IF Len(i) < n THEN <<>> ELSE FoldSteps(Take(i, n), 0, w)

\* DateTuple, but with the month and the day checked against the calendar.
DateTupleRanged(i) ==
    Try(decimal_n(4, i, U16Bits), LAMBDA y :
    Try(tag(<<45>>, y.rest), LAMBDA s1 :
    Try(decimal_n(2, s1.rest, U8Bits), LAMBDA m :
    Try(tag(<<45>>, m.rest), LAMBDA s2 :
    Try(decimal_n(2, s2.rest, U8Bits), LAMBDA d :
    IF m.val \in 1..12 /\ d.val \in 1..31
    THEN Ok(d.rest, [year |-> y.val, month |-> m.val, day |-> d.val])
    ELSE Err("Verify", i))))))

\* tuple((decimal_n(4), tag("-"), decimal_n(2), tag("-"), decimal_n(2))) mapped
\* to Date { year, month, day }, on the bytes of the input.
DateTuple(i) ==
    Try(decimal_n(4, i, U16Bits), LAMBDA y :
    Try(tag(<<45>>, y.rest), LAMBDA s1 :
    Try(decimal_n(2, s1.rest, U8Bits), LAMBDA m :
    Try(tag(<<45>>, m.rest), LAMBDA s2 :
    Try(decimal_n(2, s2.rest, U8Bits), LAMBDA d :
    Ok(d.rest, [year |-> y.val, month |-> m.val, day |-> d.val]))))))

\* Date::parse: DateTuple on i.as_bytes(), then both the remaining input and an
\* error's input go back to &str through str::from_utf8(..).unwrap().
Date_parse(i) ==
    With(DateTuple(i), LAMBDA r :
    IF r.tag = "Err" /\ r.err = "Incomplete" THEN r
    ELSE IF from_utf8_ok(r.rest) THEN r
    ELSE Panic)

\* The accumulation steps of DateTuple(i): those of each group the tuple gets to.
After(r, K(_)) == IF r.tag = "Ok" THEN K(r) ELSE <<>>

DateSteps(i) ==
    GroupSteps(4, i, U16Bits) \o
    After(decimal_n(4, i, U16Bits), LAMBDA y :
    After(tag(<<45>>, y.rest), LAMBDA s1 :
    GroupSteps(2, s1.rest, U8Bits) \o
    After(decimal_n(2, s1.rest, U8Bits), LAMBDA m :
    After(tag(<<45>>, m.rest), LAMBDA s2 :
    GroupSteps(2, s2.rest, U8Bits)))))

\* Display of an unsigned integer ("{}"): its decimal digits, no padding.
RECURSIVE fmt_unsigned(_)
fmt_unsigned(n) ==
    IF n < 10 THEN <<48 + n>> ELSE fmt_unsigned(n \div 10) \o <<48 + (n % 10)>>

\* <Date as fmt::Display>::fmt: write!(f, "{}-{}-{}", year, month, day)
Date_fmt(d) ==
    fmt_unsigned(d.year) \o <<45>> \o fmt_unsigned(d.month)
    \o <<45>> \o fmt_unsigned(d.day)

(***************************************************************************)
(* Semantic-version literal (crate `versions`, SemVer::parse): an external *)
(* collaborator.  major.minor.patch, then an optional -pre and an optional *)
(* +build, each a '.'-separated list of chunks over [0-9A-Za-z-].  The     *)
(* value is kept opaque: the bytes of the literal.                         *)
(***************************************************************************)
IsIdent(b) == IsDigit(b) \/ IsAlpha(b) \/ b = 45

RECURSIVE DigitRun(_)
DigitRun(i) == IF i # <<>> /\ IsDigit(i[1]) THEN 1 + DigitRun(Drop(i, 1)) ELSE 0

RECURSIVE IdentRun(_)
IdentRun(i) == IF i # <<>> /\ IsIdent(i[1]) THEN 1 + IdentRun(Drop(i, 1)) ELSE 0

\* alt((tag("0"), digit1)): a lone 0, or a run of digits
UnsignedLen(i) == IF i # <<>> /\ i[1] = 48 THEN 1 ELSE DigitRun(i)

unsigned(i) ==
    With(UnsignedLen(i), LAMBDA n :
    IF n = 0 THEN Err("Digit", i) ELSE Ok(Drop(i, n), Take(i, n)))

\* separated_list1(char('.'), chunk): bytes taken, 0 when there is no chunk
RECURSIVE ChunksLen(_)
ChunksLen(i) ==
    LET n == IdentRun(i)
        r == Drop(i, n)
    IN  IF n = 0 THEN 0
        ELSE IF r # <<>> /\ r[1] = 46 /\ ChunksLen(Drop(r, 1)) > 0
             THEN n + 1 + ChunksLen(Drop(r, 1))
             ELSE n

\* opt(preceded(char(c), chunks)): bytes taken, 0 when absent
OptSuffixLen(c, i) ==
    IF i # <<>> /\ i[1] = c /\ ChunksLen(Drop(i, 1)) > 0
    THEN 1 + ChunksLen(Drop(i, 1))
    ELSE 0

SemVer_parse(i) ==
    Try(unsigned(i), LAMBDA major :
    Try(char(46, major.rest), LAMBDA d1 :
    Try(unsigned(d1.rest), LAMBDA minor :
    Try(char(46, minor.rest), LAMBDA d2 :
    Try(unsigned(d2.rest), LAMBDA patch :
    With(OptSuffixLen(45, patch.rest), LAMBDA pre :
    With(OptSuffixLen(43, Drop(patch.rest, pre)), LAMBDA meta :
    With(Len(i) - Len(patch.rest) + pre + meta, LAMBDA n :
    Ok(Drop(i, n), Take(i, n))))))))))

(***************************************************************************)
(* Version header grammar (version.rs)                                     *)
(***************************************************************************)
\* Option<T>: None is the empty sequence, Some(x) the sequence of x alone.
NoneV == <<>>
Some(x) == <<x>>

Unreleased == [v |-> "Unreleased", semver |-> <<>>, date |-> NoneV]
Released(sv, d) == [v |-> "Released", semver |-> sv, date |-> d]

\* The parsers handed to `between` as closures.
PChar(c) == [p |-> "char", c |-> c]
PUnreleased == [p |-> "unreleased", c |-> 0]
PSemVer == [p |-> "SemVer::parse", c |-> 0]

\* unreleased, but matching the marker's case exactly (tag! for tag_no_case!).
unreleased_exact_case(i) ==
    tag(B(<<"u","n","r","e","l","e","a","s","e","d">>), i)

\* named!(unreleased, tag_no_case!("unreleased"))
unreleased(i) == tag_no_case(B(<<"u","n","r","e","l","e","a","s","e","d">>), i)

Apply(p, i) ==
    CASE p.p = "char" -> char(p.c, i)
      [] p.p = "unreleased" -> unreleased(i)
      [] p.p = "SemVer::parse" -> SemVer_parse(i)

\* between, but the closing parser is not required.
between_unclosed(left, value, right, i) ==
    Try(Apply(left, i), LAMBDA l :
    Try(Apply(value, l.rest), LAMBDA v :
    Ok(v.rest, v.val)))

\* left, then value, then right, each on what the one before left over; the
\* first failure is the result.
between(left, value, right, i) ==
    Try(Apply(left, i), LAMBDA l :
    Try(Apply(value, l.rest), LAMBDA v :
    Try(Apply(right, v.rest), LAMBDA r :
    Ok(r.rest, v.val))))

\* a.or_else(|_| b): a when it is Ok, b otherwise
or_else(a, b) == IF a.tag = "Ok" THEN a ELSE b

\* parse_unreleased, but the marker has to be the whole text.
parse_unreleased_whole(i) ==
    Try(or_else(unreleased(i), between(PChar(91), PUnreleased, PChar(93), i)),
        LAMBDA r : IF r.rest = <<>> THEN Ok(r.rest, NoVal) ELSE Err("Eof", r.rest))

\* unreleased(i).or_else(|_| between(char('['), unreleased, char(']'), i))
parse_unreleased(i) ==
    Try(or_else(unreleased(i), between(PChar(91), PUnreleased, PChar(93), i)),
        LAMBDA r : Ok(r.rest, NoVal))

\* parse_released, but without the bracketed alternative.
parse_released_bare(i) ==
    Try(SemVer_parse(i), LAMBDA r : Ok(r.rest, r.val))

\* SemVer::parse(i).or_else(|_| between(char('['), SemVer::parse, char(']'), i))
parse_released(i) ==
    Try(or_else(SemVer_parse(i), between(PChar(91), PSemVer, PChar(93), i)),
        LAMBDA r : Ok(r.rest, r.val))

\* space0, char('-'), space0, Date::parse
parse_date(i) ==
    Try(space0(i), LAMBDA s1 :
    Try(char(45, s1.rest), LAMBDA d :
    Try(space0(d.rest), LAMBDA s2 :
    Try(Date_parse(s2.rest), LAMBDA date :
    Ok(date.rest, date.val)))))

\* opt!(parse_date): Some on Ok, None (input untouched) on Err::Error, any
\* other outcome passes through.
parse_date_opt(i) ==
    With(parse_date(i), LAMBDA r :
    IF r.tag = "Ok" THEN Ok(r.rest, Some(r.val))
    ELSE IF r.tag = "Err" /\ r.err = "Error" THEN Ok(i, NoneV)
    ELSE r)

(***************************************************************************)
(* Blocks (comrak AstNode, as far as the classifier looks at it)           *)
(***************************************************************************)
\* An inline child of a heading: a text run or an emphasised text run
\* (NodeValue::Text / NodeValue::Emph over Vec<u8>).
Inline(kind, literal) == [kind |-> kind, literal |-> literal]

Heading(level, children) ==
    [value |-> "Heading", level |-> level, children |-> children]
Paragraph == [value |-> "Paragraph", level |-> 0, children |-> <<>>]

\* comrak's HTML escaping of a literal
RECURSIVE escape(_)
escape(s) ==
    IF s = <<>> THEN <<>>
    ELSE LET rest == escape(Drop(s, 1))
         IN  CASE s[1] = 38 -> B(<<"&","a","m","p",";">>) \o rest
               [] s[1] = 60 -> B(<<"&","l","t",";">>) \o rest
               [] s[1] = 62 -> B(<<"&","g","t",";">>) \o rest
               [] s[1] = 34 -> B(<<"&","q","u","o","t",";">>) \o rest
               [] OTHER -> <<s[1]>> \o rest

\* comrak::format_html of the heading's only child, into a Vec<u8>
format_html(n) ==
    IF n.kind = "Text" THEN escape(n.literal)
    ELSE B(<<"<","e","m",">">>) \o escape(n.literal) \o B(<<"<","/","e","m",">">>)

\* Outcome of one classification.  `branch` is the last parser the text went to.
COk(version, branch) ==
    [tag |-> "Ok", kind |-> "-", version |-> Some(version), branch |-> branch]
CErr(kind, branch) ==
    [tag |-> "Err", kind |-> kind, version |-> NoneV, branch |-> branch]
CPanic(branch) ==
    [tag |-> "Panic", kind |-> "-", version |-> NoneV, branch |-> branch]

\* The grammar part of Version::try_from, on the rendered text.
classify_text(data) ==
    IF parse_unreleased(data).tag = "Ok" THEN COk(Unreleased, "parse_unreleased")
    ELSE
    With(parse_released(data), LAMBDA r :
    IF r.tag # "Ok" THEN CErr("Format", "parse_released") ELSE
    With(parse_date_opt(r.rest), LAMBDA d :
    IF d.tag = "Panic" THEN CPanic("parse_date_opt")
    ELSE IF d.tag # "Ok" THEN CErr("Format", "parse_date_opt")
    ELSE COk(Released(r.val, d.val), "parse_date_opt")))

\* try_from, but with a memory: once an Unreleased heading has been
\* classified, a later one is refused (Format).
try_from_one_unreleased(node) ==
    IF ~(node.value = "Heading" /\ node.level = 2) THEN CErr("Header", "level")
    ELSE IF Len(node.children) # 1 THEN CErr("SingleSpan", "children")
    ELSE With(format_html(node.children[1]), LAMBDA s :
         IF ~from_utf8_ok(s) THEN CErr("Utf8", "from_utf8")
         ELSE With(classify_text(s), LAMBDA c :
              IF /\ c.tag = "Ok" /\ c.version[1].v = "Unreleased"
                 /\ \E i \in 1..Len(classified) :
                        /\ classified[i].class.tag = "Ok"
                        /\ classified[i].class.version[1].v = "Unreleased"
              THEN CErr("Format", "parse_released")
              ELSE c))

\* try_from, but a heading of any level goes on to the grammar.
try_from_any_level(node) ==
    IF node.value # "Heading" THEN CErr("Header", "level")
    ELSE IF Len(node.children) # 1 THEN CErr("SingleSpan", "children")
    ELSE With(format_html(node.children[1]), LAMBDA s :
         IF ~from_utf8_ok(s) THEN CErr("Utf8", "from_utf8")
         ELSE classify_text(s))

\* Version::try_from(&AstNode)
try_from(node) ==
    IF ~(node.value = "Heading" /\ node.level = 2) THEN CErr("Header", "level")
    ELSE IF Len(node.children) # 1 THEN CErr("SingleSpan", "children")
    ELSE With(format_html(node.children[1]), LAMBDA s :
         IF ~from_utf8_ok(s) THEN CErr("Utf8", "from_utf8")
         ELSE classify_text(s))

(***************************************************************************)
(* The kinds of block the documents are made of                            *)
(***************************************************************************)
Txt(cs) == <<Inline("Text", B(cs))>>

H2Unreleased == Heading(2, Txt(<<"U","n","r","e","l","e","a","s","e","d">>))
H2Dated ==
    Heading(2, Txt(<<"[","1",".","2",".","3","]"," ","-"," ",
                     "2","0","2","3","-","0","4","-","0","5">>))
\* Format: a level-2 heading that is no version
H2Changes == Heading(2, Txt(<<"C","h","a","n","g","e","s">>))
\* SingleSpan: two inline children
H2TwoSpans ==
    Heading(2, <<Inline("Text", B(<<"1",".","2",".","3">>)),
                 Inline("Emph", B(<<"b","e","t","a">>))>>)
\* Utf8: a literal that is no valid text (a lone lead byte)
H2BadBytes == Heading(2, <<Inline("Text", <<Chr["1"], Chr["E9-lead"]>>)>>)
\* Header: version texts at levels 1 and 3
H1Version == Heading(1, Txt(<<"1",".","2",".","3">>))
H3Unreleased == Heading(3, Txt(<<"U","n","r","e","l","e","a","s","e","d">>))
\* a release heading whose year group ends inside a two-byte character
H2SplitChar ==
    Heading(2, Txt(<<"1",".","2",".","3"," ","-"," ",
                     "2","0","2","E9-lead","E9-cont">>))

BlockKinds ==
    {Paragraph, H2Unreleased, H2Dated, H2Changes, H2TwoSpans,
     H2BadBytes, H1Version, H3Unreleased, H2SplitChar}

\* Version::try_from of each kind of block.  try_from reads nothing but its
\* argument, so the segmenter's calls Version::try_from(block) are looked up
\* here: ClassOf[b] is try_from(b), worked out once per kind of block.
ClassOf == [b \in BlockKinds |-> try_from(b)]

(***************************************************************************)
(* Changelog segmenter (lib.rs)                                            *)
(***************************************************************************)
\* Longest document, and the number of next() calls made after the end.
MaxBlocks == 4
MaxIdle == 2

\* What a call returned: nothing yet, None, or Some(item).
NoRet == <<"NoRet">>
RetNone == <<"None">>
RetSome(item) == <<"Some", item>>

\* An item of the iterator: (Version, Vec<&AstNode>).  A &AstNode is the
\* node's place in the document.
Entry(version, contents) == [version |-> version, contents |-> contents]

\* Where a loop of new or next() stands when it ends: the blocks pulled, whether
\* the source answered None, the pair left in self.0, the local `contents`,
\* whether the call unwound, and the classifications it made, in order.
Scan(cur, done, pending, contents, abort) ==
    [cursor |-> cur, srcDone |-> done, slot |-> pending,
     contents |-> contents, abort |-> abort, seen |-> <<>>]

\* One loop iteration's Version::try_from(block), block being the k-th of the
\* document and c what it answered, ahead of the rest of the loop.
Classification(k, c) == [block |-> k, class |-> c]
Saw(k, c, scan) == [scan EXCEPT !.seen = <<Classification(k, c)>> \o @]

\* Seek, but a level-2 heading that fails the grammar is taken as the first
\* boundary (as Unreleased) instead of being skipped.
RECURSIVE SeekAnyHeading(_, _)
SeekAnyHeading(bs, k) ==
    IF k >= Len(bs) THEN Scan(k, TRUE, NoneV, <<>>, FALSE)
    ELSE With(ClassOf[bs[k + 1]], LAMBDA c : Saw(k + 1, c,
         IF c.tag = "Panic" THEN Scan(k + 1, FALSE, NoneV, <<>>, TRUE)
         ELSE IF c.tag = "Ok" THEN Scan(k + 1, FALSE, c.version, <<>>, FALSE)
         ELSE IF c.kind = "Format"
              THEN Scan(k + 1, FALSE, Some(Unreleased), <<>>, FALSE)
         ELSE SeekAnyHeading(bs, k + 1)))

\* Seek, but the first boundary is only looked at, not pulled: the source
\* handed to next() still starts with it.
RECURSIVE SeekPeeked(_, _)
SeekPeeked(bs, k) ==
    IF k >= Len(bs) THEN Scan(k, TRUE, NoneV, <<>>, FALSE)
    ELSE With(ClassOf[bs[k + 1]], LAMBDA c : Saw(k + 1, c,
         IF c.tag = "Panic" THEN Scan(k + 1, FALSE, NoneV, <<>>, TRUE)
         ELSE IF c.tag = "Ok" THEN Scan(k, FALSE, c.version, <<>>, FALSE)
         ELSE SeekPeeked(bs, k + 1)))

\* Seek, but the whole source is read before the first boundary is returned
\* (the blocks are drained into a buffer first).
RECURSIVE SeekDrained(_, _)
SeekDrained(bs, k) ==
    IF k >= Len(bs) THEN Scan(k, TRUE, NoneV, <<>>, FALSE)
    ELSE With(ClassOf[bs[k + 1]], LAMBDA c : Saw(k + 1, c,
         IF c.tag = "Panic" THEN Scan(k + 1, FALSE, NoneV, <<>>, TRUE)
         ELSE IF c.tag = "Ok" THEN Scan(Len(bs), TRUE, c.version, <<>>, FALSE)
         ELSE SeekDrained(bs, k + 1)))

\* The loop of Changelog::new, with k blocks already pulled from `bs`.
RECURSIVE Seek(_, _)
Seek(bs, k) ==
    IF k >= Len(bs) THEN Scan(k, TRUE, NoneV, <<>>, FALSE)
    ELSE With(ClassOf[bs[k + 1]], LAMBDA c : Saw(k + 1, c,
         IF c.tag = "Panic" THEN Scan(k + 1, FALSE, NoneV, <<>>, TRUE)
         ELSE IF c.tag = "Ok" THEN Scan(k + 1, FALSE, c.version, <<>>, FALSE)
         ELSE Seek(bs, k + 1)))

\* Collect, but a block that fails classification ends the entry and the
\* iteration (the failure is propagated instead of being caught).
RECURSIVE CollectStopOnErr(_, _, _)
CollectStopOnErr(bs, k, contents) ==
    IF k >= Len(bs) THEN Scan(k, TRUE, NoneV, contents, FALSE)
    ELSE With(ClassOf[bs[k + 1]], LAMBDA c : Saw(k + 1, c,
         IF c.tag = "Panic" THEN Scan(k + 1, FALSE, NoneV, contents, TRUE)
         ELSE IF c.tag = "Ok" THEN Scan(k + 1, FALSE, c.version, contents, FALSE)
         ELSE Scan(k + 1, FALSE, NoneV, contents, FALSE)))

\* Collect, but the heading that ends the entry is pushed to `contents` too
\* (contents.push(block) ahead of the classification).
RECURSIVE CollectWithBoundary(_, _, _)
CollectWithBoundary(bs, k, contents) ==
    IF k >= Len(bs) THEN Scan(k, TRUE, NoneV, contents, FALSE)
    ELSE With(ClassOf[bs[k + 1]], LAMBDA c : Saw(k + 1, c,
         IF c.tag = "Panic" THEN Scan(k + 1, FALSE, NoneV, contents, TRUE)
         ELSE IF c.tag = "Ok"
              THEN Scan(k + 1, FALSE, c.version, Append(contents, k + 1), FALSE)
         ELSE CollectWithBoundary(bs, k + 1, Append(contents, k + 1))))

\* The loop of next(), with k blocks already pulled and `contents` collected.
RECURSIVE Collect(_, _, _)
Collect(bs, k, contents) ==
    IF k >= Len(bs) THEN Scan(k, TRUE, NoneV, contents, FALSE)
    ELSE With(ClassOf[bs[k + 1]], LAMBDA c : Saw(k + 1, c,
         IF c.tag = "Panic" THEN Scan(k + 1, FALSE, NoneV, contents, TRUE)
         ELSE IF c.tag = "Ok" THEN Scan(k + 1, FALSE, c.version, contents, FALSE)
         ELSE Collect(bs, k + 1, Append(contents, k + 1))))

\* Changelog::new(blocks)
Changelog_new ==
    /\ pc = "start"
    /\ LET r == Seek(blocks, 0)
       IN  /\ cursor' = r.cursor
           /\ srcDone' = r.srcDone
           /\ slot' = r.slot
           /\ pc' = IF r.abort THEN "aborted" ELSE "ready"
           /\ classified' = classified \o r.seen
    /\ UNCHANGED <<blocks, emitted, ret, idle, mode, gramVars>>

\* Changelog_next, but the pending pair is read without being taken out
\* (self.0.clone() for self.0.take()): at exhaustion it stays in the slot.
Changelog_next_without_take ==
    /\ pc = "ready"
    /\ idle < MaxIdle
    /\ Len(emitted) <= MaxBlocks + 1
    /\ IF slot = NoneV
       THEN /\ ret' = RetNone
            /\ idle' = idle + 1
            /\ UNCHANGED <<cursor, srcDone, slot, emitted, pc, classified>>
       ELSE LET r == Collect(blocks, cursor, <<>>)
            IN  /\ cursor' = r.cursor
                /\ srcDone' = r.srcDone
                /\ slot' = IF r.slot = NoneV THEN slot ELSE r.slot
                /\ pc' = IF r.abort THEN "aborted" ELSE "ready"
                /\ ret' = IF r.abort THEN ret ELSE RetSome(Entry(slot[1], r.contents))
                /\ emitted' = IF r.abort THEN emitted
                              ELSE Append(emitted, Entry(slot[1], r.contents))
                /\ idle' = idle
                /\ classified' = classified \o r.seen
    /\ UNCHANGED <<blocks, mode, gramVars>>

\* <Changelog as Iterator>::next(&mut self)
Changelog_next ==
    /\ pc = "ready"
    /\ idle < MaxIdle
    /\ IF slot = NoneV
       THEN /\ ret' = RetNone
            /\ idle' = idle + 1
            /\ UNCHANGED <<cursor, srcDone, slot, emitted, pc, classified>>
       ELSE LET r == Collect(blocks, cursor, <<>>)
            IN  /\ cursor' = r.cursor
                /\ srcDone' = r.srcDone
                /\ slot' = r.slot
                /\ pc' = IF r.abort THEN "aborted" ELSE "ready"
                /\ ret' = IF r.abort THEN ret ELSE RetSome(Entry(slot[1], r.contents))
                /\ emitted' = IF r.abort THEN emitted
                              ELSE Append(emitted, Entry(slot[1], r.contents))
                /\ idle' = idle
                /\ classified' = classified \o r.seen
    /\ UNCHANGED <<blocks, mode, gramVars>>

(***************************************************************************)
(* Documents                                                               *)
(***************************************************************************)
Documents == UNION {[1..n -> BlockKinds] : n \in 0..MaxBlocks}

Init ==
    /\ blocks \in Documents
    /\ cursor = 0
    /\ srcDone = FALSE
    /\ slot = NoneV
    /\ emitted = <<>>
    /\ ret = NoRet
    /\ pc = "start"
    /\ idle = 0
    /\ classified = <<>>
    /\ mode = "seg"
    /\ inp = <<>>
    /\ text = <<>>
    /\ result = <<>>
    /\ steps = <<>>
    /\ shown = <<>>
    /\ gpc = "off"

Next == Changelog_new \/ Changelog_next

Spec == Init /\ [][Next]_vars

(***************************************************************************)
(* Grammar runs: one heading text (or one date text) is drawn and the      *)
(* grammar is applied to it.                                               *)
(***************************************************************************)
\* The YYYY-MM-DD literal of three numbers, zero padded.
Dig(n) == 48 + n
DateLiteral(f) ==
    <<Dig(f[1] \div 1000), Dig((f[1] \div 100) % 10), Dig((f[1] \div 10) % 10),
      Dig(f[1] % 10), 45, Dig(f[2] \div 10), Dig(f[2] % 10), 45,
      Dig(f[3] \div 10), Dig(f[3] % 10)>>

DateOf(f) == [year |-> f[1], month |-> f[2], day |-> f[3]]

DateFields ==
    {<<2023, 4, 5>>, <<2023, 99, 99>>, <<1, 1, 1>>, <<0, 0, 0>>, <<9999, 13, 31>>,
     <<9999, 99, 99>>}

EAcute == <<Chr["E9-lead"], Chr["E9-cont"]>>

Markers ==
    {B(<<"u","n","r","e","l","e","a","s","e","d">>),
     B(<<"U","n","r","e","l","e","a","s","e","d">>),
     B(<<"U","N","R","E","L","E","A","S","E","D">>),
     B(<<"u","n","R","e","L","e","A","s","E","d">>)}

Literals ==
    {B(<<"1",".","2",".","3">>),
     B(<<"0",".","1",".","0","-","r","c",".","1">>),
     B(<<"1","0",".","2","0",".","3","0","+","b","7">>)}

OtherCores ==
    {<<>>, B(<<"u","n","r","e","l">>), B(<<"1",".","2">>),
     B(<<"C","h","a","n","g","e","s">>)}

Opens == {<<>>, B(<<"[">>)}

Closes ==
    {<<>>, B(<<"]">>), B(<<"x">>), B(<<"]","x">>), B(<<"&">>),
     B(<<" ","c","h","a","n","g","e","s">>)}

\* optional blanks, '-', optional blanks
DashSeps ==
    {B(<<" ","-"," ">>), B(<<"-">>), B(<<" ","-">>), B(<<"-"," ">>),
     B(<<"\t","-","\t">>), B(<<" "," ","-"," "," ">>)}

Seps == DashSeps \cup {<<>>, B(<<" ">>), B(<<" ",":"," ">>)}

\* What may follow the separator: txt, and the date it starts with (if any).
Trailer(txt, date) == [txt |-> txt, date |-> date]

GoodTails ==
    {Trailer(DateLiteral(f), Some(DateOf(f))) : f \in DateFields}
    \cup {Trailer(DateLiteral(f) \o B(<<" ","x">>), Some(DateOf(f))) : f \in DateFields}

BadTails ==
    {Trailer(t, NoneV) : t \in
        {<<>>,
         B(<<"x">>),
         B(<<"2","0","2","3","-","4","-","5">>),
         B(<<"2","0","2","3","-","0","4">>),
         B(<<"2","0","2","3","/","0","4","/","0","5">>),
         B(<<"2","0","x","3","-","0","4","-","0","5">>),
         B(<<"2","0","2","3","-","0","4","-","0","x">>),
         B(<<"2","0","2">>) \o EAcute \o B(<<"-","0","4","-","0","5">>),
         B(<<"2","0">>) \o EAcute \o B(<<"3","-","0","4","-","0","5">>),
         B(<<"2","0","2","3","-","0">>) \o EAcute \o B(<<"-","0","5">>),
         B(<<"2","0","2","3","-","0","4","-","0">>) \o EAcute}}

Tails == GoodTails \cup BadTails

HeadingInputs ==
    [open : Opens, core : Markers \cup Literals \cup OtherCores,
     close : Closes, sep : Seps, tail : Tails]

TextOf(h) == h.open \o h.core \o h.close \o h.sep \o h.tail.txt

\* One position of a date literal replaced (pos = 0: none), then a suffix.
Repls == {B(<<"7">>), B(<<"-">>), B(<<"x">>), B(<<" ">>), EAcute, <<>>}
Sufs == {<<>>, B(<<" ","x">>), EAcute, B(<<"7">>)}

DateInputs ==
    [base : DateFields, pos : 0..10, repl : Repls, suf : Sufs]

DateTextOf(d) ==
    (IF d.pos = 0 THEN DateLiteral(d.base)
     ELSE Take(DateLiteral(d.base), d.pos - 1) \o d.repl
          \o Drop(DateLiteral(d.base), d.pos))
    \o d.suf

\* Version::try_from on a level-2 heading whose only child is the text
Classify ==
    /\ mode = "heading"
    /\ gpc = "start"
    /\ result' = try_from(Heading(2, <<Inline("Text", text)>>))
    /\ gpc' = "done"
    /\ UNCHANGED <<segVars, mode, inp, text, steps, shown>>

\* Date::parse on the text
ParseDate ==
    /\ mode = "date"
    /\ gpc = "start"
    /\ result' = Date_parse(text)
    /\ steps' = DateSteps(text)
    /\ gpc' = "done"
    /\ UNCHANGED <<segVars, mode, inp, text, shown>>

\* format!("{}", date) on the Date that Date::parse returned
ShowDate ==
    /\ mode = "date"
    /\ gpc = "done"
    /\ result.tag = "Ok"
    /\ shown' = Date_fmt(result.val)
    /\ gpc' = "shown"
    /\ UNCHANGED <<segVars, mode, inp, text, result, steps>>

InitGrammar ==
    /\ blocks = <<>>
    /\ cursor = 0
    /\ srcDone = FALSE
    /\ slot = NoneV
    /\ emitted = <<>>
    /\ ret = NoRet
    /\ pc = "off"
    /\ idle = 0
    /\ classified = <<>>
    /\ mode \in {"heading", "date"}
    /\ inp \in (IF mode = "heading" THEN HeadingInputs ELSE DateInputs)
    /\ text = (IF mode = "heading" THEN TextOf(inp) ELSE DateTextOf(inp))
    /\ result = <<>>
    /\ steps = <<>>
    /\ shown = <<>>
    /\ gpc = "start"

NextGrammar == Classify \/ ParseDate \/ ShowDate

SpecGrammar == InitGrammar /\ [][NextGrammar]_vars

(***************************************************************************)
(* Properties of the segmenter (checked under Spec)                        *)
(***************************************************************************)
IsBoundary(bs, k) == ClassOf[bs[k]].tag = "Ok"
IsFailure(bs, k) == ClassOf[bs[k]].tag = "Err"

BoundaryIdx(bs) == {k \in 1..Len(bs) : IsBoundary(bs, k)}

\* the i-th boundary of the document
NthBoundary(bs, i) ==
    CHOOSE k \in BoundaryIdx(bs) :
        Cardinality({j \in BoundaryIdx(bs) : j <= k}) = i

\* the end of the run of blocks that follows boundary k
RunEnd(bs, k) ==
    IF \E j \in BoundaryIdx(bs) : j > k
    THEN (CHOOSE j \in BoundaryIdx(bs) :
            j > k /\ \A h \in BoundaryIdx(bs) : h > k => j <= h) - 1
    ELSE Len(bs)

ExpectedEntry(bs, k) ==
    Entry(ClassOf[bs[k]].version[1], [j \in 1..(RunEnd(bs, k) - k) |-> k + j])

ExpectedEntries(bs) ==
    [i \in 1..Cardinality(BoundaryIdx(bs)) |-> ExpectedEntry(bs, NthBoundary(bs, i))]

Finished == pc = "ready" /\ ret = RetNone

\* C1: for every block sequence, new and then next() until None yields one
\* entry per boundary block, in document order, entry i carrying the i-th
\* boundary's Version and exactly the blocks strictly between the i-th and the
\* (i+1)-th boundary (or the end), in order.
C1_OneEntryPerBoundary ==
    /\ pc # "aborted"
    /\ Finished => emitted = ExpectedEntries(blocks)

\* The part of C1 that the code keeps: a run that is not cut short by a
\* classification that aborts yields exactly the expected entries.
SegmentationWhenFinished ==
    Finished => emitted = ExpectedEntries(blocks)

AllFail(bs) == \A k \in 1..Len(bs) : IsFailure(bs, k)

\* C2: when every block of the sequence fails classification (none is a
\* Version), new returns the empty state and every next() returns None: the
\* whole source is consumed and no entry is ever emitted.
C2_NoVersionNoEntry ==
    AllFail(blocks) =>
        /\ pc \in {"start", "ready"}
        /\ pc = "ready" =>
            /\ slot = NoneV
            /\ emitted = <<>>
            /\ ret \in {NoRet, RetNone}
            /\ srcDone /\ cursor = Len(blocks)

C2_Witness ==
    /\ AllFail(blocks) /\ Len(blocks) >= 2
    /\ \E k \in 1..Len(blocks) : ClassOf[blocks[k]].kind = "Format"
    /\ pc = "ready" /\ ret = RetNone /\ idle >= 2

\* number of the entry a pulled block k belongs to: the boundaries up to k
EntryOf(bs, k) == Cardinality({j \in BoundaryIdx(bs) : j <= k})

InContents(e, k) == \E j \in 1..Len(e.contents) : e.contents[j] = k

\* C3: a block whose classification fails (Header, SingleSpan, Format, Utf8)
\* never stops the scan and is never surfaced: a call never aborts or returns
\* at such a block (it returns at a boundary or at the end of the source),
\* and once pulled the block is in no entry if it precedes the first boundary
\* and in the content of the entry of the boundary before it otherwise.
C3_FailureNeverStopsScan ==
    /\ pc = "aborted" => cursor >= 1 /\ ClassOf[blocks[cursor]].tag = "Panic"
    /\ pc = "ready" =>
        /\ srcDone \/ (cursor >= 1 /\ IsBoundary(blocks, cursor))
        /\ ret[1] \in {"NoRet", "None", "Some"}
        /\ \A k \in 1..cursor :
            IsFailure(blocks, k) =>
                IF EntryOf(blocks, k) = 0
                THEN \A i \in 1..Len(emitted) : ~InContents(emitted[i], k)
                ELSE /\ Len(emitted) >= EntryOf(blocks, k)
                     /\ InContents(emitted[EntryOf(blocks, k)], k)

C3_Witness ==
    /\ pc = "ready" /\ Len(emitted) >= 1 /\ cursor = Len(blocks)
    /\ \E k \in 1..Len(blocks) :
        /\ ClassOf[blocks[k]].kind = "Format" /\ EntryOf(blocks, k) = 0
    /\ \E k \in 1..Len(blocks) :
        /\ ClassOf[blocks[k]].kind = "SingleSpan"
        /\ InContents(emitted[1], k)

(***************************************************************************)
(* Properties of the grammar (checked under SpecGrammar)                   *)
(***************************************************************************)
Classified == mode = "heading" /\ gpc = "done"
DateParsed == mode = "date" /\ gpc = "done"

IsUnreleased(r) == r.tag = "Ok" /\ r.version[1].v = "Unreleased"
IsReleased(r) == r.tag = "Ok" /\ r.version[1].v = "Released"

\* how the drawn parts wrap the core
BareForm(h) == h.open = <<>>
WrappedForm(h) == h.open # <<>> /\ h.close # <<>> /\ h.close[1] = 93
ExactlyBare(h) == h.open = <<>> /\ h.close = <<>>
ExactlyWrapped(h) == h.open # <<>> /\ h.close = <<93>>

\* the text after the core (and after its closing bracket)
Following(h) ==
    (IF WrappedForm(h) THEN Drop(h.close, 1) ELSE h.close) \o h.sep \o h.tail.txt

\* the text after a bare core goes on as part of the version literal: more
\* digits or chunk characters, a '.' or '+', or a '-' that continues a chunk
\* of the core's suffix or starts a pre-release
Extended(h) ==
    /\ BareForm(h)
    /\ Following(h) # <<>>
    /\ \/ IsDigit(Following(h)[1]) \/ IsAlpha(Following(h)[1])
       \/ Following(h)[1] \in {46, 43}
       \/ /\ Following(h)[1] = 45
          /\ \/ \E k \in 1..Len(h.core) : h.core[k] \in {45, 43}
             \/ Len(Following(h)) >= 2 /\ IsIdent(Following(h)[2])

StartsWithLiteral(h) == h.core \in Literals /\ (BareForm(h) \/ WrappedForm(h))

\* the date the text after the literal gives: blanks, '-', blanks, YYYY-MM-DD
FollowingDate(h) ==
    IF h.sep \in DashSeps /\ Following(h) = h.sep \o h.tail.txt
    THEN h.tail.date
    ELSE NoneV

\* C4: a text that starts with a valid released-version literal (bare or in
\* brackets) classifies as Released whatever follows, with the date exactly
\* when a well-formed date follows; never a failure, never an abort.
C4_ReleasedWhateverFollows ==
    (Classified /\ StartsWithLiteral(inp)) =>
        /\ IsReleased(result)
        /\ ~Extended(inp) =>
               result.version[1] = Released(inp.core, FollowingDate(inp))

\* Where C4 breaks: only by the abort, on a date whose digit group ends inside
\* a multi-byte character.
C4_ExceptAbort ==
    (Classified /\ StartsWithLiteral(inp) /\ result.tag # "Panic") =>
        /\ IsReleased(result)
        /\ ~Extended(inp) =>
               result.version[1] = Released(inp.core, FollowingDate(inp))

PlainDated(h) ==
    \/ h.sep = <<>> /\ h.tail.txt = <<>>
    \/ /\ h.sep = <<32, 45, 32>>
       /\ \E f \in DateFields : h.tail = Trailer(DateLiteral(f), Some(DateOf(f)))

\* C5: a version literal, bare or in one [ ] pair, optionally followed by
\* " - " and a YYYY-MM-DD date, classifies as Released with that version and
\* with exactly that date (none when absent); brackets and date independent.
C5_ReleasedForms ==
    (/\ Classified
     /\ inp.core \in Literals
     /\ ExactlyBare(inp) \/ ExactlyWrapped(inp)
     /\ PlainDated(inp)) =>
        /\ result.tag = "Ok"
        /\ result.version[1] = Released(inp.core, inp.tail.date)

C5_Witness ==
    /\ Classified /\ inp.core \in Literals /\ ExactlyWrapped(inp)
    /\ PlainDated(inp) /\ inp.tail.date # NoneV
    /\ IsReleased(result) /\ result.version[1].date = Some(DateOf(<<2023, 4, 5>>))

\* C6: "unreleased" in any mix of case, bare or in one [ ] pair, classifies
\* as Unreleased, and by the unreleased parser: the released parser is never
\* reached.
C6_UnreleasedAnyCase ==
    (/\ Classified
     /\ inp.core \in Markers
     /\ ExactlyBare(inp) \/ ExactlyWrapped(inp)
     /\ inp.sep = <<>> /\ inp.tail.txt = <<>>) =>
        /\ IsUnreleased(result)
        /\ result.branch = "parse_unreleased"

C6_Witness ==
    /\ Classified /\ ExactlyWrapped(inp)
    /\ inp.core = B(<<"U","N","R","E","L","E","A","S","E","D">>)
    /\ inp.sep = <<>> /\ inp.tail.txt = <<>>
    /\ IsUnreleased(result)

\* the marker, case-insensitively, at bytes off+1 .. off+10 of t
Marker == B(<<"u","n","r","e","l","e","a","s","e","d">>)
Fold(b) == IF b \in 65..90 THEN b + 32 ELSE b
MarkerAt(t, off) ==
    /\ Len(t) >= off + Len(Marker)
    /\ \A k \in 1..Len(Marker) : Fold(t[off + k]) = Marker[k]

WholeMarker(t) ==
    \/ MarkerAt(t, 0) /\ Len(t) = Len(Marker)
    \/ /\ Len(t) = Len(Marker) + 2
       /\ t[1] = 91 /\ MarkerAt(t, 1) /\ t[Len(t)] = 93

StartsWithMarker(t) ==
    \/ MarkerAt(t, 0)
    \/ /\ Len(t) >= Len(Marker) + 2
       /\ t[1] = 91 /\ MarkerAt(t, 1) /\ t[Len(Marker) + 2] = 93

\* C7 (as claimed): a text classifies as Unreleased only if the entire text
\* is the marker, optionally in one [ ] pair.
C7_OnlyWholeText ==
    (Classified /\ IsUnreleased(result)) => WholeMarker(text)

\* C7 (amended): a text classifies as Unreleased exactly when it begins with
\* the marker, bare or immediately wrapped in one [ ] pair; whatever follows
\* the marker (or its closing bracket) is ignored.
C7_UnreleasedIffPrefix ==
    Classified => (IsUnreleased(result) <=> StartsWithMarker(text))

C7_Witness ==
    /\ Classified /\ IsUnreleased(result)
    /\ text = Marker \o B(<<" ","c","h","a","n","g","e","s">>)

\* C8: a text that opens with '[' followed by the marker or a version
\* literal, with no ']' right after it, fails as a whole with Format: it is
\* neither Unreleased nor Released.
C8_UnclosedBracketFails ==
    (/\ Classified
     /\ inp.open # <<>>
     /\ inp.core \in Markers \cup Literals
     /\ ~WrappedForm(inp)
     /\ Following(inp) = <<>> \/ Following(inp)[1] # 93) =>
        /\ result.tag = "Err"
        /\ result.kind = "Format"

C8_Witness ==
    /\ Classified /\ inp.open # <<>> /\ inp.core \in Literals
    /\ inp.close = <<>> /\ inp.sep = <<32, 45, 32>>
    /\ inp.tail.date # NoneV
    /\ result.tag = "Err" /\ result.kind = "Format"

\* the first 10 bytes are DDDD-DD-DD
DatePattern(t) ==
    /\ Len(t) >= 10
    /\ \A k \in {1, 2, 3, 4, 6, 7, 9, 10} : IsDigit(t[k])
    /\ t[5] = 45 /\ t[8] = 45

DigitAt(t, k) == t[k] - 48

\* C9: Date::parse succeeds exactly on texts whose first 10 characters are 4
\* digits, '-', 2 digits, '-', 2 digits; year, month and day are then the
\* decimal values of the groups (no range check) and the remaining text is the
\* input after those 10 characters.
C9_DateParseExact ==
    DateParsed =>
        /\ result.tag = "Ok" <=> DatePattern(text)
        /\ result.tag = "Ok" =>
            /\ result.val.year = 1000 * DigitAt(text, 1) + 100 * DigitAt(text, 2)
                                 + 10 * DigitAt(text, 3) + DigitAt(text, 4)
            /\ result.val.month = 10 * DigitAt(text, 6) + DigitAt(text, 7)
            /\ result.val.day = 10 * DigitAt(text, 9) + DigitAt(text, 10)
            /\ result.rest = Drop(text, 10)

C9_Witness ==
    /\ DateParsed /\ result.tag = "Ok"
    /\ result.val.month = 99 /\ result.val.day = 99
    /\ result.rest = B(<<" ","x">>)

GroupBad(t, a, b) == Len(t) >= b /\ \E k \in a..b : ~IsDigit(t[k])
GroupGood(t, a, b) == Len(t) >= b /\ \A k \in a..b : IsDigit(t[k])

\* first byte of the first digit group that holds a non-digit, 0 if the parse
\* does not fail inside a group
OffendingStart(t) ==
    IF GroupBad(t, 1, 4) THEN 1
    ELSE IF GroupGood(t, 1, 4) /\ Len(t) >= 5 /\ t[5] = 45 /\ GroupBad(t, 6, 7)
         THEN 6
    ELSE IF /\ GroupGood(t, 1, 4) /\ Len(t) >= 8 /\ t[5] = 45
            /\ GroupGood(t, 6, 7) /\ t[8] = 45 /\ GroupBad(t, 9, 10)
         THEN 9
    ELSE 0

\* C10: a non-digit inside a digit group makes Date::parse fail with kind
\* Digit, the error's input being the text from the group's first character.
C10_DigitErrorAtGroup ==
    (DateParsed /\ OffendingStart(text) > 0) =>
        /\ result.tag = "Err"
        /\ result.kind = "Digit"
        /\ result.rest = Drop(text, OffendingStart(text) - 1)

\* What the code does instead: the error's input is the text after the group,
\* and Date::parse panics when that is not a character boundary.
DigitErrorAfterGroup ==
    (DateParsed /\ OffendingStart(text) > 0) =>
        LET after == Drop(text, OffendingStart(text)
                                + (IF OffendingStart(text) = 1 THEN 3 ELSE 1))
        IN  IF from_utf8_ok(after)
            THEN result.tag = "Err" /\ result.kind = "Digit" /\ result.rest = after
            ELSE result.tag = "Panic"

DateShown == mode = "date" /\ gpc = "shown"

\* C11: for every literal of 4 digits, '-', 2 digits, '-', 2 digits, parsing
\* it and formatting the parsed Date (its Display) gives back the literal's 10
\* characters exactly.
C11_DateRoundTrip ==
    (DateShown /\ DatePattern(text)) => shown = Take(text, 10)

\* What the code does instead: Display writes the three numbers without
\* padding, so the literal comes back exactly when no group starts with '0'.
RoundTripWithoutLeadingZero ==
    DateShown =>
        /\ DatePattern(text)
        /\ shown = Take(text, 10) <=> (text[1] # 48 /\ text[6] # 48 /\ text[9] # 48)

(***************************************************************************)
(* Further properties of the segmenter (checked under Spec)                *)
(***************************************************************************)
\* the blocks of the content lists emitted so far
EmittedBlocks ==
    {emitted[i].contents[j] : <<i, j>> \in
        {p \in (1..Len(emitted)) \X (1..MaxBlocks + 1) :
            p[2] <= Len(emitted[p[1]].contents)}}

\* C12: no boundary heading and no block that precedes the first boundary is
\* ever in the content of an emitted entry: after any sequence of next() calls
\* every block of every emitted content list is a non-boundary block located
\* after the first boundary.
C12_ContentsAfterFirstBoundary ==
    \A k \in EmittedBlocks :
        /\ k \in 1..Len(blocks)
        /\ ~IsBoundary(blocks, k)
        /\ \E b \in BoundaryIdx(blocks) : b < k

C12_Witness ==
    /\ pc = "ready" /\ Len(emitted) = 2
    /\ ~IsBoundary(blocks, 1) /\ IsBoundary(blocks, 2)
    /\ emitted[1].contents = <<3>> /\ IsBoundary(blocks, 4)
    /\ ClassOf[blocks[3]].kind = "Format"

\* next() has returned the final entry: the source answered None while an
\* entry was being collected
Exhausted == pc = "ready" /\ srcDone /\ Len(emitted) >= 1

\* C13: once next() has emitted the final entry because the source was
\* exhausted, every later next() returns None, however many calls follow: no
\* entry is emitted again or after the end, and nothing more is pulled.
C13_OneShot ==
    [][Exhausted =>
        /\ ret' = RetNone
        /\ emitted' = emitted
        /\ slot' = NoneV
        /\ cursor' = cursor
        /\ pc' = "ready"]_vars

C13_Witness ==
    /\ Exhausted /\ Len(emitted) >= 2
    /\ ret = RetNone /\ idle >= 2

\* calls of next() that have returned
Calls == Len(emitted) + idle

\* the position just past the n-th boundary: the blocks pulled when the scan
\* stops there, all of them when there is no n-th boundary
PulledAfter(bs, n) ==
    IF Cardinality(BoundaryIdx(bs)) >= n THEN NthBoundary(bs, n) ELSE Len(bs)

\* C14: entries are produced lazily: new pulls only the blocks up to and
\* including the first boundary and each next() only those up to and including
\* the next boundary (or to the end), so after k calls the number of blocks
\* pulled is the position just past the (k+1)-th boundary; and what a call
\* holds is the content of the entry it builds: the blocks it pulled, less the
\* boundary it stopped at.
C14_Lazy ==
    pc = "ready" =>
        /\ cursor = PulledAfter(blocks, Calls + 1)
        /\ srcDone <=> Cardinality(BoundaryIdx(blocks)) < Calls + 1
        /\ \A n \in 1..Len(emitted) :
            emitted[n].contents =
                [j \in 1..(PulledAfter(blocks, n + 1) - PulledAfter(blocks, n)
                           - (IF Cardinality(BoundaryIdx(blocks)) > n THEN 1 ELSE 0))
                    |-> PulledAfter(blocks, n) + j]

C14_Witness ==
    /\ pc = "ready" /\ Len(emitted) = 1 /\ slot # NoneV
    /\ cursor = 3 /\ Len(blocks) = 4 /\ ~srcDone
    /\ emitted[1].contents = <<2>>

\* a heading at a level other than 2
OtherLevel(bs, k) == bs[k].value = "Heading" /\ bs[k].level # 2

\* ... whose text, at level 2, would be a version
HasVersionText ==
    [b \in BlockKinds |->
        /\ Len(b.children) = 1
        /\ classify_text(format_html(b.children[1])).tag = "Ok"]

VersionText(bs, k) == HasVersionText[bs[k]]

\* C15: a heading at a level other than 2 whose text matches the version
\* grammar is never a boundary: its classification fails with Header before
\* the text is looked at; while seeking it is skipped, while grouping it
\* becomes content of the current entry and starts no entry.
C15_OtherLevelNeverBoundary ==
    \A k \in 1..cursor :
        (OtherLevel(blocks, k) /\ VersionText(blocks, k)) =>
            /\ \A i \in 1..Len(classified) :
                classified[i].block = k =>
                    classified[i].class = CErr("Header", "level")
            /\ pc = "ready" =>
                /\ cursor = k => srcDone /\ slot = NoneV
                /\ IF \A b \in 1..(k - 1) : ClassOf[blocks[b]].tag # "Ok"
                   THEN \A i \in 1..Len(emitted) : ~InContents(emitted[i], k)
                   ELSE /\ Len(emitted) >= EntryOf(blocks, k)
                        /\ InContents(emitted[EntryOf(blocks, k)], k)
                        /\ Len(emitted) + (IF slot = NoneV THEN 0 ELSE 1)
                               = Cardinality({b \in 1..cursor :
                                     blocks[b].level = 2 /\ ClassOf[blocks[b]].tag = "Ok"})

C15_Witness ==
    /\ pc = "ready" /\ Len(emitted) = 1 /\ Len(blocks) = 4 /\ srcDone
    /\ blocks[1] = H3Unreleased /\ blocks[2] = H2Dated
    /\ blocks[3] = H1Version /\ blocks[4] = H3Unreleased
    /\ emitted[1].contents = <<3, 4>>
    /\ VersionText(blocks, 1) /\ VersionText(blocks, 3)

AutoState(phase, k, current, acc, out) ==
    [phase |-> phase, k |-> k, current |-> current, acc |-> acc, out |-> out]

AutoInit == AutoState("Seeking", 0, NoneV, <<>>, <<>>)

AutoStep(bs, a) ==
    IF a.phase = "Seeking"
    THEN IF a.k >= Len(bs) THEN [a EXCEPT !.phase = "Done"]
         ELSE With(ClassOf[bs[a.k + 1]], LAMBDA c :
              IF c.tag = "Panic" THEN [a EXCEPT !.phase = "Aborted", !.k = @ + 1]
              ELSE IF c.tag = "Ok"
                   THEN [a EXCEPT !.phase = "Grouping", !.k = @ + 1,
                                  !.current = c.version]
              ELSE [a EXCEPT !.k = @ + 1])
    ELSE IF a.phase = "Grouping"
    THEN IF a.k >= Len(bs)
         THEN [a EXCEPT !.phase = "Done", !.current = NoneV, !.acc = <<>>,
                        !.out = Append(@, Entry(a.current[1], a.acc))]
         ELSE With(ClassOf[bs[a.k + 1]], LAMBDA c :
              IF c.tag = "Panic" THEN [a EXCEPT !.phase = "Aborted", !.k = @ + 1]
              ELSE IF c.tag = "Ok"
                   THEN [a EXCEPT !.k = @ + 1, !.current = c.version, !.acc = <<>>,
                                  !.out = Append(@, Entry(a.current[1], a.acc))]
              ELSE [a EXCEPT !.k = @ + 1, !.acc = Append(@, a.k + 1)])
    ELSE a

\* the automaton run to the end of its Seeking phase
RECURSIVE AutoSeek(_, _)
AutoSeek(bs, a) == IF a.phase # "Seeking" THEN a ELSE AutoSeek(bs, AutoStep(bs, a))

\* ... and on, until it has emitted n entries or has stopped
RECURSIVE AutoUntil(_, _, _)
AutoUntil(bs, a, n) ==
    IF a.phase # "Grouping" \/ Len(a.out) >= n THEN a
    ELSE AutoUntil(bs, AutoStep(bs, a), n)

AutoAt(bs, n) == AutoUntil(bs, AutoSeek(bs, AutoInit), n)

\* the blocks pulled after the first boundary that are no boundary
GroupedBlocks ==
    {k \in 1..cursor : ~IsBoundary(blocks, k) /\ \E b \in BoundaryIdx(blocks) : b < k}

\* C17: the iterator (take the pending pair, consume blocks, put a new pair
\* back at a boundary) is observationally equivalent to the Seeking/Grouping
\* automaton that peeks: between calls it has emitted the same entries in the
\* same order and stands at the same place of the source, the slot is
\* occupied exactly when the automaton is in Grouping with an entry still to
\* emit (holding the same version, nothing accumulated), and Seeking is never
\* re-entered: after the first boundary no pulled block is dropped.
C17_RefinesAutomaton ==
    /\ pc = "ready" =>
        With(AutoAt(blocks, Len(emitted)), LAMBDA a :
            /\ a.out = emitted
            /\ a.k = cursor
            /\ a.phase \in {"Grouping", "Done"}
            /\ slot # NoneV <=> a.phase = "Grouping"
            /\ slot = a.current
            /\ a.acc = <<>>
            /\ a.phase = "Done" <=> srcDone)
    /\ pc = "ready" => EmittedBlocks = GroupedBlocks
    /\ pc = "aborted" =>
        With(AutoAt(blocks, Len(emitted) + 1), LAMBDA a :
            a.phase = "Aborted" /\ a.out = emitted /\ a.k = cursor)

C17_Witness ==
    /\ pc = "ready" /\ Len(emitted) = 2 /\ slot = NoneV /\ Len(blocks) = 4
    /\ ~IsBoundary(blocks, 1) /\ IsBoundary(blocks, 2) /\ IsBoundary(blocks, 3)
    /\ emitted[1].contents = <<>> /\ emitted[2].contents = <<4>>
    /\ AutoAt(blocks, 2).phase = "Done" /\ AutoAt(blocks, 1).phase = "Grouping"

\* every block pulled so far has been classified once, in document order
EachPulledBlockClassifiedOnce ==
    /\ cursor <= Len(blocks)
    /\ classified = [i \in 1..cursor |-> Classification(i, ClassOf[blocks[i]])]

\* what is left to do: the blocks not yet pulled, and the pending entry
Remaining == (Len(blocks) - cursor) + (IF slot = NoneV THEN 0 ELSE 1)

\* C18: for every finite block sequence construction terminates and repeated
\* next() calls reach None after finitely many calls (at most one per
\* boundary, then None); the source only moves forward and every block is
\* pulled and classified exactly once.
C18_TerminatesEachBlockOnce ==
    /\ pc # "aborted"
    /\ EachPulledBlockClassifiedOnce
    /\ pc = "ready" =>
        /\ Len(emitted) <= Cardinality(BoundaryIdx(blocks))
        /\ Len(emitted) = Cardinality(BoundaryIdx(blocks)) => slot = NoneV
        /\ slot = NoneV => cursor = Len(blocks)

\* The part of C18 that the code keeps: on every run, aborted or not, each
\* pulled block is classified exactly once and never read again, ...
ClassifiedOnceWhenAborted ==
    /\ EachPulledBlockClassifiedOnce
    /\ pc = "ready" =>
        /\ Len(emitted) <= Cardinality(BoundaryIdx(blocks))
        /\ slot = NoneV => cursor = Len(blocks)

\* ... the source only moves forward, and each call that finds a pending entry
\* leaves strictly less to do, so the calls that return Some are finitely many.
SourceMovesForward ==
    [][/\ cursor' >= cursor
       /\ (pc = "ready" /\ slot # NoneV) => Remaining' < Remaining
       /\ (pc = "ready" /\ slot = NoneV) => ret' = RetNone]_vars

\* the entries the calls still to come return, from k blocks pulled with
\* `pending` in the slot: next() after next() until None or an abort
RECURSIVE EntriesToCome(_, _, _)
EntriesToCome(bs, k, pending) ==
    IF pending = NoneV THEN 0
    ELSE With(Collect(bs, k, <<>>), LAMBDA r :
         IF r.abort THEN 0 ELSE 1 + EntriesToCome(bs, r.cursor, r.slot))

BoundariesAhead == Cardinality({b \in BoundaryIdx(blocks) : b > cursor})

\* C19: between calls the pending slot is empty only when the source has been
\* consumed to its end, and when it is occupied the entries still to be
\* emitted are 1 plus the boundary blocks of the unconsumed tail (a boundary
\* that is the last block still yields one entry, with empty content).
C19_SlotCountsEntriesToCome ==
    pc = "ready" =>
        /\ slot = NoneV => srcDone /\ cursor = Len(blocks)
        /\ slot # NoneV =>
            EntriesToCome(blocks, cursor, slot) = 1 + BoundariesAhead

\* The part of C19 that the code keeps: the count is right whenever no heading
\* of the unconsumed tail makes the classifier abort.
EntriesToComeUnlessAbort ==
    pc = "ready" =>
        /\ slot = NoneV => srcDone /\ cursor = Len(blocks)
        /\ (/\ slot # NoneV
            /\ \A j \in (cursor + 1)..Len(blocks) : ClassOf[blocks[j]].tag # "Panic") =>
                EntriesToCome(blocks, cursor, slot) = 1 + BoundariesAhead

\* a boundary that is the last block: slot occupied, source at its end but not
\* yet known to be exhausted, one entry (with empty content) to come
LastBlockBoundaryPending ==
    /\ pc = "ready" /\ slot # NoneV /\ cursor = Len(blocks) /\ ~srcDone
    /\ EntriesToCome(blocks, cursor, slot) = 1
    /\ Collect(blocks, cursor, <<>>).contents = <<>>

(***************************************************************************)
(* Digit accumulation (checked under SpecGrammar)                          *)
(***************************************************************************)
\* the value fits the unsigned integer type of that many bits
InWidth(s) == s.value >= 0 /\ s.value < 2 ^ s.bits

\* the decimal value of the digits at bytes a..b of t
RECURSIVE DecimalAt(_, _, _)
DecimalAt(t, a, b) ==
    IF b < a THEN 0 ELSE 10 * DecimalAt(t, a, b - 1) + DigitAt(t, b)

\* C20: digit accumulation never overflows its integer width: for every
\* 2-digit group decoded into a u8 and every 4-digit group decoded into a u16
\* each intermediate value of (acc * 10 + digit_byte) - '0', in the order the
\* code computes it, stays within 0..255 respectively 0..65535, and the final
\* result is the group's decimal value (0..99, 0..9999).
C20_NoOverflow ==
    DateParsed =>
        /\ \A k \in 1..Len(steps) : InWidth(steps[k])
        /\ GroupGood(text, 1, 4) =>
            /\ Len(steps) >= 12
            /\ \A k \in 1..12 : steps[k].bits = U16Bits
            /\ steps[12].value = DecimalAt(text, 1, 4)
            /\ steps[12].value \in 0..9999
        /\ result.tag = "Ok" =>
            /\ Len(steps) = 24
            /\ \A k \in 13..24 : steps[k].bits = U8Bits
            /\ steps[18].value = DecimalAt(text, 6, 7)
            /\ steps[24].value = DecimalAt(text, 9, 10)
            /\ steps[18].value \in 0..99 /\ steps[24].value \in 0..99
            /\ result.val = [year |-> steps[12].value, month |-> steps[18].value,
                             day |-> steps[24].value]

C20_Witness ==
    /\ DateParsed /\ result.tag = "Ok"
    /\ \E k \in 1..Len(steps) : steps[k] = Step(U16Bits, 10047)
    /\ \E k \in 1..Len(steps) : steps[k] = Step(U8Bits, 147)
    /\ result.val = [year |-> 9999, month |-> 99, day |-> 99]

====
